---------------------------- MODULE Spec2Model ----------------------------
(***************************************************************************)
(* A model of the xripl radiograph toolkit (lanl/xripl):                   *)
(*   - xripl/magnification.py : lineoutMinima, tubeCenterPx, diameterPx,   *)
(*     magnificationUmPx, magnificationAnalysis                            *)
(*   - xripl/visualizations.py: cropImgCalibrated, rotateImgCalibrated     *)
(*   - xripl/segmentation.py  : detectShock and its helpers                *)
(*                                                                         *)
(* numpy arrays are functions over 0..n-1 (python's indexing is kept).     *)
(* Intensities are integers; the Savitzky-Golay output is kept in          *)
(* fixed point (units of 1/70), half pixels in units of 1/2.               *)
(***************************************************************************)
EXTENDS Integers, Sequences, FiniteSets, TLC

\* --------------------------------------------------------------- bounds
\* length of a lineout (number of radial samples)
LineoutLen == 9
\* largest raw intensity of a lineout sample
MaxIntensity == 1
\* largest peakWidth argument tried
MaxPeakWidth == 2

\* most minima handed to tubeCenterPx and diameterPx in one call
MaxMinima == 3
\* largest pixel index handed to tubeCenterPx and diameterPx
MaxIdx == 3
\* largest |innerDiameterPx|, stdDevPx and innerDiameterErrUm tried
MaxPx == 3
MaxStdDevPx == 2
MaxErrUm == 2

\* magnificationAnalysis: largest yMin, and most rows of the cropped and
\* rotated image (xMax - xMin)
MaxYMin == 1
MaxCropRows == 2

\* detectShock: rows and columns of the image, gray levels 1..MaxGray,
\* the largest nSegs
ImgRows == 2

ImgCols == 4

MaxGray == 2

MaxSegs == 2

MaxContours == 3

MaxContourLen == 3

\* ---------------------------------------------------- program constants
\* magnificationUmPx: innerDiameterUm=500
DefaultInnerDiameterUm == 500

\* detectShock: gradientThreshold=10
DefaultGradientThreshold == 10

\* ------------------------------------------------------- array helpers
ALen(a) == Cardinality(DOMAIN a)

EmptyArr == [i \in {} |-> 0]

SetMax(S) == CHOOSE m \in S : \A s \in S : s <= m

SetMin(S) == CHOOSE m \in S : \A s \in S : m <= s

\* the elements of a finite set of integers as an ascending array
RECURSIVE AscendingSeq(_)
AscendingSeq(S) ==
    IF S = {} THEN <<>>
    ELSE LET m == SetMin(S) IN <<m>> \o AscendingSeq(S \ {m})

AscendingArr(S) ==
    LET s == AscendingSeq(S) IN [i \in 0..(Len(s) - 1) |-> s[i + 1]]

\* a[idx] with an index array (numpy fancy indexing)
Take(a, idx) == [i \in DOMAIN idx |-> a[idx[i]]]

\* a[:n]
Head2(a, n) == [i \in {j \in DOMAIN a : j < n} |-> a[i]]

Abs(n) == IF n < 0 THEN -n ELSE n

\* ---------------------------------------------------------- real numbers
\* A python float that is a ratio of integers is the exact fraction n/d in
\* lowest terms, d > 0.
RECURSIVE Gcd(_, _)
Gcd(a, b) == IF b = 0 THEN a ELSE Gcd(b, a % b)

Rat(n, d) ==
    LET g == Gcd(Abs(n), Abs(d))
        sg == IF d < 0 THEN -1 ELSE 1
    IN  [n |-> sg * (n \div g), d |-> sg * (d \div g)]

RatOfInt(k) == [n |-> k, d |-> 1]

\* the terms are brought to the least common denominator, and the factors
\* of a product are cancelled crosswise, before anything is multiplied
RatAdd(a, b) ==
    LET g == Gcd(a.d, b.d)
    IN  Rat(a.n * (b.d \div g) + b.n * (a.d \div g), (a.d \div g) * b.d)

RatSub(a, b) == RatAdd(a, [n |-> -b.n, d |-> b.d])

RatMul(a, b) ==
    LET g1 == Gcd(Abs(a.n), b.d)
        g2 == Gcd(Abs(b.n), a.d)
    IN  Rat((a.n \div g1) * (b.n \div g2), (a.d \div g2) * (b.d \div g1))

\* a / b, b # 0
RatDiv(a, b) == RatMul(a, Rat(b.d, b.n))

\* a ** 2
RatSq(a) == RatMul(a, a)

\* a ** -1, a # 0
RatInv(a) == Rat(a.d, a.n)

Sign(k) == IF k > 0 THEN 1 ELSE IF k < 0 THEN -1 ELSE 0

\* A float that is a square root is kept as sgn * sqrt(sq), sq an exact
\* fraction: np.sqrt gives the principal root, squaring gives sq back.
NpSqrt(q) == [sgn |-> Sign(q.n), sq |-> q]

RootOfRat(q) == [sgn |-> Sign(q.n), sq |-> RatSq(q)]

RootSq(r) == r.sq

\* ------------------------------------------- scipy.signal.savgol_filter
\* savgol_filter(y, window_length=5, polyorder=3, mode='interp'), times 70.
\* A cubic fitted to 5 equally spaced points leaves the residual
\* v * (v . y) / 70 with v = (1,-4,6,-4,1); the interior sample is the
\* fit's centre, the first and last two samples are read off the fit of
\* the first and last window (mode 'interp').
SavgolV == <<1, -4, 6, -4, 1>>

SavgolWindowStart(n, i) ==
    IF i - 2 < 0 THEN 0 ELSE IF i - 2 > n - 5 THEN n - 5 ELSE i - 2

SavgolFilter(y) ==
    LET n == ALen(y)
        Dot(s) == SavgolV[1] * y[s] + SavgolV[2] * y[s + 1] + SavgolV[3] * y[s + 2]
                  + SavgolV[4] * y[s + 3] + SavgolV[5] * y[s + 4]
    IN  [i \in 0..(n - 1) |->
            LET s == SavgolWindowStart(n, i)
            IN  70 * y[i] - SavgolV[i - s + 1] * Dot(s)]

\* ----------------------------------------------- scipy.signal.find_peaks
\* _local_maxima_1d: the midpoints of the plateaus that are strictly
\* higher than both neighbours; the first and last sample are never peaks.
\* the midpoint rounded up, where scipy rounds down
PlateauMidpointUp(l, r) == (l + r + 1) \div 2

PlateauMidpoint(l, r) == (l + r) \div 2

LocalMaxima(x) ==
    LET n == ALen(x)
    IN  { PlateauMidpoint(e[1], e[2]) : e \in
            { pl \in (1..(n - 2)) \X (1..(n - 2)) :
                /\ pl[1] <= pl[2]
                /\ x[pl[1] - 1] < x[pl[1]]
                /\ x[pl[2] + 1] < x[pl[2]]
                /\ \A j \in pl[1]..pl[2] : x[j] = x[pl[1]] } }

\* peak_prominences (wlen=None): prominence, left base, right base
PeakProminence(x, p) ==
    LET n == ALen(x)
        lStop == SetMax({-1} \cup {j \in 0..(p - 1) : x[j] > x[p]})
        rStop == SetMin({n} \cup {j \in (p + 1)..(n - 1) : x[j] > x[p]})
        lMin == SetMin({x[i] : i \in (lStop + 1)..p})
        rMin == SetMin({x[i] : i \in p..(rStop - 1)})
    IN  [prominence |-> x[p] - (IF lMin > rMin THEN lMin ELSE rMin),
         leftBase   |-> SetMax({i \in (lStop + 1)..p : x[i] = lMin}),
         rightBase  |-> SetMin({i \in p..(rStop - 1) : x[i] = rMin})]

\* peak_widths (rel_height=0.5) compared with a minimal width w.  The
\* evaluation height and the interpolated crossings are kept as exact
\* fractions: height = h2/2, left_ip = il + nl/dl, right_ip = ir - nr/dr.
PeakWidthAtLeast(x, p, w) ==
    LET pr == PeakProminence(x, p)
        h2 == 2 * x[p] - pr.prominence
        il == SetMax({pr.leftBase} \cup {i \in pr.leftBase..p : 2 * x[i] <= h2})
        ir == SetMin({pr.rightBase} \cup {i \in p..pr.rightBase : 2 * x[i] <= h2})
        lInterp == 2 * x[il] < h2
        rInterp == 2 * x[ir] < h2
        nl == IF lInterp THEN h2 - 2 * x[il] ELSE 0
        dl == IF lInterp THEN 2 * (x[il + 1] - x[il]) ELSE 1
        nr == IF rInterp THEN h2 - 2 * x[ir] ELSE 0
        dr == IF rInterp THEN 2 * (x[ir - 1] - x[ir]) ELSE 1
    IN  (ir - il - w) * dl * dr - nr * dl - nl * dr >= 0

\* find_peaks(x, width=w): ascending peak indices of width >= w
FindPeaks(x, w) ==
    AscendingArr({p \in LocalMaxima(x) : PeakWidthAtLeast(x, p, w)})


\* ------------------------------------------------------ numpy.argsort
\* Every index order that sorts v ascending.  numpy's default sort is not
\* stable, so equal values may come out in either order.
Argsort(v) ==
    { f \in [DOMAIN v -> DOMAIN v] :
        /\ \A a, b \in DOMAIN v : a # b => f[a] # f[b]
        /\ \A a, b \in DOMAIN v : a < b => v[f[a]] <= v[f[b]] }

\* ---------------------------------------------------------- variables
VARIABLES
    \* lineoutMinima: arguments
    lineoutX, lineoutY, peakWidth, plotsFlag,
    \* lineoutMinima: locals
    lmPc, lineoutSmoothed, peaks,
    \* lineoutMinima: the width of every find_peaks call made, in order,
    \* and the number of peaks the first call found
    findCalls, firstCount,
    \* lineoutMinima: returned arrays
    minimaIdxs, minimaPeaksXFilt, minimaPeaksYFilt,
    \* a call of tubeCenterPx, diameterPx or magnificationUmPx: the
    \* function with its arguments, and how the call ended
    call, outcome,
    \* magnificationAnalysis: arguments, position, and the stages entered
    maArgs, maPc, stageLog,
    \* magnificationAnalysis: images and pixel references
    imgRaw, img_crop, extent_crop, pxRefCrop, img_rot, extent_rot, pxRefRot,
    enhanceInput, flattened,
    \* magnificationAnalysis: the loop over lineouts and its arrays
    lineoutIdxs, lineoutAvg, idx, lowerIdxs, upperIdxs, centerIdxs, minimaArr,
    \* magnificationAnalysis: statistics, magnification, returned dict
    stats, magnification, results,
    \* detectShock: arguments, position, and the steps entered
    dsArgs, dsPc, stepLog,
    \* detectShock: locals; markers holds the thresholded mask, then its
    \* labelled regions; thresholded keeps the mask of line 167
    denoised, denoised_norm, rankGrad, markers, thresholded, closing, gradient2,
    \* detectShock: the arguments watershed was called with, and its result
    watershedCall, labels,
    \* detectShock: the segments chosen, the contours, how the call ended
    largestSegments, contoursList, dsOutcome

lmVars == <<lineoutX, lineoutY, peakWidth, plotsFlag, lmPc, lineoutSmoothed,
            peaks, findCalls, firstCount, minimaIdxs, minimaPeaksXFilt,
            minimaPeaksYFilt>>

fnVars == <<call, outcome>>

maImages == <<imgRaw, img_crop, extent_crop, pxRefCrop, img_rot, extent_rot,
              pxRefRot, enhanceInput, flattened>>

maLoop == <<lineoutIdxs, lineoutAvg, idx, lowerIdxs, upperIdxs, centerIdxs,
            minimaArr>>

maVars == <<maArgs, maPc, stageLog, maImages, maLoop, stats, magnification,
            results>>

dsVars == <<dsArgs, dsPc, stepLog, denoised, denoised_norm, rankGrad, markers,
            thresholded, closing, gradient2, watershedCall, labels,
            largestSegments, contoursList, dsOutcome>>

vars == <<lmVars, fnVars, maVars, dsVars>>

\* the variables each part of the program leaves alone
notLM == <<fnVars, maVars, dsVars>>

notFn == <<lmVars, maVars, dsVars>>

notMA == <<lmVars, fnVars, dsVars>>

notDS == <<lmVars, fnVars, maVars>>

\* ------------------------------------------------------- lineoutMinima
\* the radial axis handed in as lineoutX, in micrometres
UmAxis == [i \in 0..(LineoutLen - 1) |-> 25 * i - 75]

Lineouts == [0..(LineoutLen - 1) -> 0..MaxIntensity]

\* len(peaks) < 2
NeedsRetryLoose(pk) == ALen(pk) <= 2

NeedsRetry(pk) == ALen(pk) < 2

\* int(peakWidth * 1/2) for a non-negative peakWidth
WidthMod(w) == w \div 2

\* sortIdxs[-2:], the two shallowest
SelectIdxsLast(sortIdxs) ==
    LET n == ALen(sortIdxs)
        m == IF n < 2 THEN n ELSE 2
    IN  [i \in 0..(m - 1) |-> sortIdxs[n - m + i]]

\* sortIdxs[:2]
SelectIdxs(sortIdxs) == Head2(sortIdxs, 2)

\* no call of lineoutMinima in progress
LMIdle ==
    /\ lineoutX = EmptyArr
    /\ lineoutY = EmptyArr
    /\ peakWidth = 0
    /\ plotsFlag = FALSE
    /\ lmPc = "idle"
    /\ lineoutSmoothed = EmptyArr
    /\ peaks = EmptyArr
    /\ findCalls = <<>>
    /\ firstCount = -1
    /\ minimaIdxs = EmptyArr
    /\ minimaPeaksXFilt = EmptyArr
    /\ minimaPeaksYFilt = EmptyArr

LMInit ==
    /\ lineoutX = UmAxis
    /\ lineoutY \in Lineouts
    /\ peakWidth \in 0..MaxPeakWidth
    /\ plotsFlag = FALSE
    /\ lmPc = "smooth"
    /\ lineoutSmoothed = EmptyArr
    /\ peaks = EmptyArr
    /\ findCalls = <<>>
    /\ firstCount = -1
    /\ minimaIdxs = EmptyArr
    /\ minimaPeaksXFilt = EmptyArr
    /\ minimaPeaksYFilt = EmptyArr

\* lines 59-61
LMSmooth ==
    /\ lmPc = "smooth"
    /\ lineoutSmoothed' = SavgolFilter(lineoutY)
    /\ lmPc' = "find"
    /\ UNCHANGED <<lineoutX, lineoutY, peakWidth, plotsFlag, peaks, findCalls,
                   firstCount, minimaIdxs, minimaPeaksXFilt, minimaPeaksYFilt>>
    /\ UNCHANGED notLM

\* lines 65-70: the search on the inverted lineout, and the test
LMFindPeaks ==
    /\ lmPc = "find"
    /\ LET inverted == [i \in DOMAIN lineoutSmoothed |-> -lineoutSmoothed[i]]
           found == FindPeaks(inverted, peakWidth)
       IN  /\ peaks' = found
           /\ firstCount' = ALen(found)
           /\ lmPc' = IF NeedsRetry(found) THEN "retry" ELSE "select"
    /\ findCalls' = Append(findCalls, peakWidth)
    /\ UNCHANGED <<lineoutX, lineoutY, peakWidth, plotsFlag, lineoutSmoothed,
                   minimaIdxs, minimaPeaksXFilt, minimaPeaksYFilt>>
    /\ UNCHANGED notLM

\* lines 71-77: the one retry with half the width
LMRetry ==
    /\ lmPc = "retry"
    /\ LET inverted == [i \in DOMAIN lineoutSmoothed |-> -lineoutSmoothed[i]]
       IN  peaks' = FindPeaks(inverted, WidthMod(peakWidth))
    /\ findCalls' = Append(findCalls, WidthMod(peakWidth))
    /\ plotsFlag' = TRUE
    /\ lmPc' = "select"
    /\ UNCHANGED <<lineoutX, lineoutY, peakWidth, lineoutSmoothed, firstCount,
                   minimaIdxs, minimaPeaksXFilt, minimaPeaksYFilt>>
    /\ UNCHANGED notLM

\* lines 79-113: the two deepest minima, and the return
LMSelect ==
    /\ lmPc = "select"
    /\ LET minimaPeaksX == Take(lineoutX, peaks)
           minimaPeaksY == Take(lineoutSmoothed, peaks)
       IN  \E sortIdxs \in Argsort(minimaPeaksY) :
             LET selectIdxs == SelectIdxs(sortIdxs)
             IN  /\ minimaPeaksXFilt' = Take(minimaPeaksX, selectIdxs)
                 /\ minimaPeaksYFilt' = Take(minimaPeaksY, selectIdxs)
                 /\ minimaIdxs' = Take(peaks, selectIdxs)
    /\ lmPc' = "done"
    /\ UNCHANGED <<lineoutX, lineoutY, peakWidth, plotsFlag, lineoutSmoothed,
                   peaks, findCalls, firstCount>>
    /\ UNCHANGED notLM

LMNext == LMSmooth \/ LMFindPeaks \/ LMRetry \/ LMSelect



\* ------------------------------------------------------- tubeCenterPx
\* np.shape(minimaIdxs) == (2,)
ShapeIsTwo(idxs) == ALen(idxs) = 2

ArrMin(a) == SetMin({a[i] : i \in DOMAIN a})

ArrMax(a) == SetMax({a[i] : i \in DOMAIN a})

\* an optional argument: None, or a value
None == [none |-> TRUE, val |-> EmptyArr]

Some(v) == [none |-> FALSE, val |-> v]

Returned(v) == [kind |-> "return", value |-> v]

Raised(e) == [kind |-> e, value |-> 0]

Pending == [kind |-> "pending", value |-> 0]

\* tubeCenterPx(minimaIdxs, lineoutY, plotsFlag): how the call ends.
\* len(lineoutY) on line 144 is evaluated whether or not plotsFlag is set.
TubeCenterPx(idxs, lineoutYArg, plots) ==
    IF ~ShapeIsTwo(idxs) THEN Raised("Exception")
    ELSE LET idxLower == ArrMin(idxs)
             idxUpper == ArrMax(idxs)
             center == Rat(idxUpper + idxLower, 2)
         IN  IF lineoutYArg.none THEN Raised("TypeError")
             ELSE Returned(center)

\* --------------------------------------------------------- diameterPx
\* minimaIdxs[1] - minimaIdxs[0]: the difference without np.min, np.max
DiameterPxUnordered(idxs) ==
    IF ~ShapeIsTwo(idxs) THEN Raised("Exception")
    ELSE Returned(idxs[1] - idxs[0])

DiameterPx(idxs) ==
    IF ~ShapeIsTwo(idxs) THEN Raised("Exception")
    ELSE LET idxLower == ArrMin(idxs)
             idxUpper == ArrMax(idxs)
         IN  Returned(idxUpper - idxLower)

\* -------------------------------------------------- magnificationUmPx
\* np.sqrt(pxErrTerm): the uncertainty of the tube diameter left out, as
\* in the superseded formula kept on line 215
MagnificationUmPxPxTermOnly(innerDiameterPx, stdDevPx, innerDiameterUm, innerDiameterErrUm) ==
    IF innerDiameterPx.n = 0 THEN Raised("ZeroDivisionError")
    ELSE LET umPerPx == RatDiv(innerDiameterUm, innerDiameterPx)
             pxErrTerm == RatMul(RatSq(RatDiv(umPerPx, innerDiameterPx)), RootSq(stdDevPx))
         IN  Returned([umPerPx |-> umPerPx, stdDevUmPx |-> NpSqrt(pxErrTerm)])

\* innerDiameterPx, innerDiameterUm, innerDiameterErrUm are fractions,
\* stdDevPx a root (np.std).  A zero innerDiameterPx raises
\* ZeroDivisionError for python numbers (numpy floats give inf and nan:
\* no finite result either way).
MagnificationUmPx(innerDiameterPx, stdDevPx, innerDiameterUm, innerDiameterErrUm) ==
    IF innerDiameterPx.n = 0 THEN Raised("ZeroDivisionError")
    ELSE LET umPerPx == RatDiv(innerDiameterUm, innerDiameterPx)
             umErrTerm == RatMul(RatSq(RatInv(innerDiameterPx)), RatSq(innerDiameterErrUm))
             pxErrTerm == RatMul(RatSq(RatDiv(umPerPx, innerDiameterPx)), RootSq(stdDevPx))
             stdDevUmPx == NpSqrt(RatAdd(umErrTerm, pxErrTerm))
         IN  Returned([umPerPx |-> umPerPx, stdDevUmPx |-> stdDevUmPx])

\* ----------------------------------------- calls of the three functions
IdxArrays == UNION {[0..(n - 1) -> 0..MaxIdx] : n \in 0..MaxMinima}

CenterCalls ==
    [fn : {"tubeCenterPx"}, minimaIdxs : IdxArrays,
     lineoutY : {None, Some([i \in 0..(MaxIdx + 1) |-> 1])}, plotsFlag : BOOLEAN]

DiameterCalls == [fn : {"diameterPx"}, minimaIdxs : IdxArrays]

MagnificationCalls ==
    [fn : {"magnificationUmPx"},
     innerDiameterPx : {Rat(n, d) : n \in (-MaxPx)..MaxPx, d \in 1..2},
     stdDevPx : {RootOfRat(RatOfInt(k)) : k \in 0..MaxStdDevPx},
     innerDiameterUm : {RatOfInt(1), RatOfInt(3), RatOfInt(DefaultInnerDiameterUm)},
     innerDiameterErrUm : {RatOfInt(k) : k \in 0..MaxErrUm}]

\* no call in progress
FnIdle ==
    /\ call = [fn |-> "none"]
    /\ outcome = Pending

FnInit ==
    /\ call \in CenterCalls \cup DiameterCalls \cup MagnificationCalls
    /\ outcome = Pending

TubeCenterPxCall ==
    /\ call.fn = "tubeCenterPx"
    /\ outcome.kind = "pending"
    /\ outcome' = TubeCenterPx(call.minimaIdxs, call.lineoutY, call.plotsFlag)
    /\ UNCHANGED call
    /\ UNCHANGED notFn

DiameterPxCall ==
    /\ call.fn = "diameterPx"
    /\ outcome.kind = "pending"
    /\ outcome' = DiameterPx(call.minimaIdxs)
    /\ UNCHANGED call
    /\ UNCHANGED notFn

MagnificationUmPxCall ==
    /\ call.fn = "magnificationUmPx"
    /\ outcome.kind = "pending"
    /\ outcome' = MagnificationUmPx(call.innerDiameterPx, call.stdDevPx,
                                    call.innerDiameterUm, call.innerDiameterErrUm)
    /\ UNCHANGED call
    /\ UNCHANGED notFn

FnNext == TubeCenterPxCall \/ DiameterPxCall \/ MagnificationUmPxCall


\* ------------------------------------- lineoutMinima, as one evaluation
\* the peaks the selection works on: the first search, or the retry
LineoutMinimaPeaks(y, w) ==
    LET sm == SavgolFilter(y)
        inverted == [i \in DOMAIN sm |-> -sm[i]]
        first == FindPeaks(inverted, w)
    IN  IF NeedsRetry(first) THEN FindPeaks(inverted, WidthMod(w)) ELSE first

\* every (minimaIdxs, minimaPeaksXFilt, minimaPeaksYFilt) a call can return
LineoutMinima(x, y, w) ==
    LET sm == SavgolFilter(y)
        pk == LineoutMinimaPeaks(y, w)
    IN  { [minimaIdxs |-> Take(pk, SelectIdxs(sortIdxs)),
           minimaPeaksXFilt |-> Take(Take(x, pk), SelectIdxs(sortIdxs)),
           minimaPeaksYFilt |-> Take(Take(sm, pk), SelectIdxs(sortIdxs))] :
          sortIdxs \in Argsort(Take(sm, pk)) }

\* -------------------------------------------------------------- images
\* a 2D numpy array is a function of the row giving a function of the column
Tuple2(a, b) == [i \in 0..1 |-> IF i = 0 THEN a ELSE b]

NRows(img) == ALen(img)

NCols(img) == IF ALen(img) = 0 THEN 0 ELSE ALen(img[0])

\* np.shape(img)
Shape(img) == Tuple2(NRows(img), NCols(img))

\* a python slice lo:hi of an axis of length n, for 0 <= lo: its length
SliceLen(lo, hi, n) ==
    LET stop == IF hi > n THEN n ELSE hi
    IN  IF stop > lo THEN stop - lo ELSE 0

\* visualizations.py spatialConversion: [hoMin, hoMax, vertMax, vertMin]
SpatialConversion(img, px2Um, pxRef, umRef, method) ==
    LET shape == Shape(img)
    IN  IF method = "vertical"
        THEN << (0 - pxRef[0]) * px2Um + umRef[1],
                (shape[1] - pxRef[0]) * px2Um + umRef[1],
                (shape[0] - pxRef[1]) * px2Um + umRef[0],
                (0 - pxRef[1]) * px2Um + umRef[0] >>
        ELSE << -1 * ((0 - pxRef[0]) * px2Um - umRef[0]),
                -1 * ((shape[1] - pxRef[0]) * px2Um - umRef[0]),
                (shape[0] - pxRef[1]) * px2Um + umRef[1],
                (0 - pxRef[1]) * px2Um + umRef[1] >>

\* img[yMin:yMax, xMin:xMax]
CropImg(img, xMin, xMax, yMin, yMax) ==
    [r \in 0..(SliceLen(yMin, yMax, NRows(img)) - 1) |->
        [c \in 0..(SliceLen(xMin, xMax, NCols(img)) - 1) |->
            img[yMin + r][xMin + c]]]

\* cropImgCalibrated: (img_crop, extent_crop, pxRefCrop)
CropImgCalibrated(img, px2Um, pxRef, umRef, xMin, xMax, yMin, yMax, method) ==
    LET crop == CropImg(img, xMin, xMax, yMin, yMax)
        ref == Tuple2(pxRef[0] - xMin, pxRef[1] - yMin)
    IN  [img |-> crop,
         extent |-> SpatialConversion(crop, px2Um, ref, umRef, method),
         pxRef |-> ref]

\* img.transpose()
Transpose(img) ==
    [r \in 0..(NCols(img) - 1) |-> [c \in 0..(NRows(img) - 1) |-> img[c][r]]]

\* np.flipud(img)
Flipud(img) == [r \in 0..(NRows(img) - 1) |-> img[NRows(img) - 1 - r]]

\* rotateImgCalibrated: (img_rot, extent_rot, pxRefRot)
RotateImgCalibrated(img, px2Um, pxRef, umRef, method) ==
    LET rot == Flipud(Transpose(img))
        cropShape == Shape(rot)
        ref == Tuple2(pxRef[1], cropShape[0] - pxRef[0])
    IN  [img |-> rot,
         extent |-> SpatialConversion(rot, px2Um, ref, umRef, method),
         pxRef |-> ref]

\* ------------------------------------------------- enhanceRadiograph
\* a lineout of n samples through a tube: bright, with dark samples S
TubeProfile(n, S) == [i \in 0..(n - 1) |-> IF i \in S THEN 0 ELSE MaxIntensity]

\* The flattened image enhanceRadiograph returns is the work of skimage's
\* median, opening, closing and gaussian filters: an image of the shape of
\* its input.  Its rows are taken to be lineouts through a tube: a left
\* wall one or two samples thick and a right wall of one sample, or one
\* wall alone.
FlattenedRows(n) ==
    { TubeProfile(n, S) :
        S \in {{2}} \cup { l \cup r : l \in {{1}, {2}, {2, 3}},
                                     r \in {{n - 3}, {n - 2}} } }

EnhanceRadiograph(img) == [0..(NRows(img) - 1) -> FlattenedRows(NCols(img))]

\* ------------------------------------------------------ numpy statistics
RECURSIVE RatSumTo(_, _)
RatSumTo(a, n) == IF n = 0 THEN RatOfInt(0) ELSE RatAdd(RatSumTo(a, n - 1), a[n - 1])

\* np.mean of an array of fractions
RatMean(a) == RatDiv(RatSumTo(a, ALen(a)), RatOfInt(ALen(a)))

\* the variance np.std takes the root of
RatVar(a) ==
    LET m == RatMean(a)
    IN  RatMean([i \in DOMAIN a |-> RatSq(RatSub(a[i], m))])

\* np.std
NpStd(a) == NpSqrt(RatVar(a))

OfInts(a) == [i \in DOMAIN a |-> RatOfInt(a[i])]

\* ----------------------------------------------- magnificationAnalysis
\* the raw radiograph: every pixel holds its own serial number
RawH == LineoutLen + MaxYMin

RawW == MaxCropRows + 1

RawImage == [r \in 0..(RawH - 1) |-> [c \in 0..(RawW - 1) |-> r * RawW + c]]

\* peakWidth=40 of line 384, at the scale of the lineouts of the model
AnalysisPeakWidth == MaxPeakWidth

MAArgSets ==
    { a \in [shotOnDisk : BOOLEAN,
             px2Um : {2},
             pxRef : {Tuple2(1, 2)},
             umRef : {Tuple2(10, 20)},
             xMin : 0..1,
             xMax : 1..RawW,
             yMin : 0..MaxYMin,
             yMax : LineoutLen..RawH,
             cropDownstream : {Tuple2(lo, hi) : lo \in 0..1,
                                                hi \in 1..(MaxCropRows + 1)},
             innerDiameterUm : {RatOfInt(DefaultInnerDiameterUm)},
             innerDiameterErrUm : {RatOfInt(1)}] :
        /\ a.xMin < a.xMax
        /\ a.xMax - a.xMin <= MaxCropRows
        /\ a.yMax = a.yMin + LineoutLen
        /\ a.cropDownstream[0] < a.cropDownstream[1]
        /\ a.cropDownstream[1] <= a.xMax - a.xMin + 1 }

\* minimaIdxs + xMin: the shift taken along the other axis
ShiftMinimaByX(idxs, a) == [i \in DOMAIN idxs |-> idxs[i] + a.xMin]

\* line 390: minimaIdxs + yMin
ShiftMinima(idxs, a) == [i \in DOMAIN idxs |-> idxs[i] + a.yMin]

\* the pixel reference handed to rotateImgCalibrated, were it the uncropped one
RotatePxRefUncropped == maArgs.pxRef

\* line 323: pxRef=pxRefCrop
RotatePxRef == pxRefCrop

\* line 330: img=img_rot
EnhanceImg == img_rot

\* no call of magnificationAnalysis in progress
MAIdle ==
    /\ maArgs = [shotOnDisk |-> FALSE]
    /\ maPc = "idle"
    /\ stageLog = <<>>
    /\ imgRaw = EmptyArr /\ img_crop = EmptyArr /\ extent_crop = <<>>
    /\ pxRefCrop = EmptyArr /\ img_rot = EmptyArr /\ extent_rot = <<>>
    /\ pxRefRot = EmptyArr /\ enhanceInput = EmptyArr /\ flattened = EmptyArr
    /\ lineoutIdxs = EmptyArr /\ lineoutAvg = EmptyArr /\ idx = 0
    /\ lowerIdxs = EmptyArr /\ upperIdxs = EmptyArr /\ centerIdxs = EmptyArr
    /\ minimaArr = EmptyArr
    /\ stats = [computed |-> FALSE]
    /\ magnification = Pending
    /\ results = [returned |-> FALSE]

MAInit ==
    /\ maArgs \in MAArgSets
    /\ maPc = "read"
    /\ stageLog = <<>>
    /\ imgRaw = EmptyArr /\ img_crop = EmptyArr /\ extent_crop = <<>>
    /\ pxRefCrop = EmptyArr /\ img_rot = EmptyArr /\ extent_rot = <<>>
    /\ pxRefRot = EmptyArr /\ enhanceInput = EmptyArr /\ flattened = EmptyArr
    /\ lineoutIdxs = EmptyArr /\ lineoutAvg = EmptyArr /\ idx = 0
    /\ lowerIdxs = EmptyArr /\ upperIdxs = EmptyArr /\ centerIdxs = EmptyArr
    /\ minimaArr = EmptyArr
    /\ stats = [computed |-> FALSE]
    /\ magnification = Pending
    /\ results = [returned |-> FALSE]

\* lines 301-305: shotRadiograph raises when the shot is not in dataDir
MARead ==
    /\ maPc = "read"
    /\ stageLog' = Append(stageLog, "read")
    /\ IF maArgs.shotOnDisk
       THEN imgRaw' = RawImage /\ maPc' = "crop"
       ELSE imgRaw' = imgRaw /\ maPc' = "raised"
    /\ UNCHANGED <<maArgs, img_crop, extent_crop, pxRefCrop, img_rot, extent_rot,
                   pxRefRot, enhanceInput, flattened, maLoop, stats,
                   magnification, results>>
    /\ UNCHANGED notMA

\* lines 307-317
MACrop ==
    /\ maPc = "crop"
    /\ stageLog' = Append(stageLog, "crop")
    /\ LET r == CropImgCalibrated(imgRaw, maArgs.px2Um, maArgs.pxRef, maArgs.umRef,
                                  maArgs.xMin, maArgs.xMax, maArgs.yMin, maArgs.yMax,
                                  "horizontal")
       IN  /\ img_crop' = r.img
           /\ extent_crop' = r.extent
           /\ pxRefCrop' = r.pxRef
    /\ maPc' = "rotate"
    /\ UNCHANGED <<maArgs, imgRaw, img_rot, extent_rot, pxRefRot, enhanceInput,
                   flattened, maLoop, stats, magnification, results>>
    /\ UNCHANGED notMA

\* lines 319-326
MARotate ==
    /\ maPc = "rotate"
    /\ stageLog' = Append(stageLog, "rotate")
    /\ LET r == RotateImgCalibrated(img_crop, maArgs.px2Um, RotatePxRef,
                                    maArgs.umRef, "vertical")
       IN  /\ img_rot' = r.img
           /\ extent_rot' = r.extent
           /\ pxRefRot' = r.pxRef
    /\ maPc' = "enhance"
    /\ UNCHANGED <<maArgs, imgRaw, img_crop, extent_crop, pxRefCrop, enhanceInput,
                   flattened, maLoop, stats, magnification, results>>
    /\ UNCHANGED notMA

\* lines 329-335
MAEnhance ==
    /\ maPc = "enhance"
    /\ stageLog' = Append(stageLog, "enhance")
    /\ enhanceInput' = EnhanceImg
    /\ flattened' \in EnhanceRadiograph(EnhanceImg)
    /\ maPc' = "lineouts"
    /\ UNCHANGED <<maArgs, imgRaw, img_crop, extent_crop, pxRefCrop, img_rot,
                   extent_rot, pxRefRot, maLoop, stats, magnification, results>>
    /\ UNCHANGED notMA


\* np.arange(start, stop)
Arange(start, stop) ==
    [i \in 0..((IF stop > start THEN stop - start ELSE 0) - 1) |-> start + i]

\* np.zeros(n)
Zeros(n, zero) == [i \in 0..(n - 1) |-> zero]

\* np.mean(allLineouts, axis=0)
MeanAxis0(rows) ==
    [c \in 0..(NCols(rows) - 1) |->
        RatMean([r \in DOMAIN rows |-> RatOfInt(rows[r][c])])]

\* lines 337-372; flattened[idx, :] raises IndexError past the last row
MALineoutsBegin ==
    /\ maPc = "lineouts"
    /\ stageLog' = Append(stageLog, "lineouts")
    /\ LET idxs == Arange(maArgs.cropDownstream[0], maArgs.cropDownstream[1])
           lineoutsNum == maArgs.cropDownstream[1] - maArgs.cropDownstream[0]
       IN  /\ lineoutIdxs' = idxs
           /\ lowerIdxs' = Zeros(lineoutsNum, 0)
           /\ upperIdxs' = Zeros(lineoutsNum, 0)
           /\ centerIdxs' = Zeros(lineoutsNum, RatOfInt(0))
           /\ minimaArr' = Zeros(lineoutsNum, EmptyArr)
           /\ idx' = 0
           /\ IF \E i \in DOMAIN idxs : idxs[i] >= NRows(flattened)
              THEN lineoutAvg' = lineoutAvg /\ maPc' = "raised"
              ELSE /\ lineoutAvg' = MeanAxis0(Take(flattened, idxs))
                   /\ maPc' = "loop"
    /\ UNCHANGED <<maArgs, maImages, stats, magnification, results>>
    /\ UNCHANGED notMA

\* lines 375-407, one pass of the loop
MALineout ==
    /\ maPc = "loop"
    /\ idx < ALen(lineoutIdxs)
    /\ LET lineoutXFlat == Arange(0, Shape(flattened)[1])
           lineoutYFlat == flattened[lineoutIdxs[idx]]
       IN  \E found \in LineoutMinima(lineoutXFlat, lineoutYFlat, AnalysisPeakWidth) :
             LET shifted == ShiftMinima(found.minimaIdxs, maArgs)
                 centerPx == TubeCenterPx(shifted, Some(lineoutYFlat), FALSE)
             IN  IF ShapeIsTwo(shifted)
                 THEN /\ lowerIdxs' = [lowerIdxs EXCEPT ![idx] = ArrMin(shifted)]
                      /\ upperIdxs' = [upperIdxs EXCEPT ![idx] = ArrMax(shifted)]
                      /\ centerIdxs' = [centerIdxs EXCEPT ![idx] = centerPx.value]
                      /\ minimaArr' = [minimaArr EXCEPT ![idx] = shifted]
                      /\ idx' = idx + 1
                      /\ maPc' = IF idx + 1 = ALen(lineoutIdxs) THEN "statistics" ELSE "loop"
                 ELSE /\ maPc' = "raised"
                      /\ UNCHANGED <<lowerIdxs, upperIdxs, centerIdxs, minimaArr, idx>>
    /\ UNCHANGED <<maArgs, stageLog, maImages, lineoutIdxs, lineoutAvg, stats,
                   magnification, results>>
    /\ UNCHANGED notMA

\* lines 409-476
MAStatistics ==
    /\ maPc = "statistics"
    /\ stageLog' = Append(stageLog, "statistics")
    /\ LET lowerIdxMean == RatMean(OfInts(lowerIdxs))
           lowerIdxStdDev == NpStd(OfInts(lowerIdxs))
           upperIdxMean == RatMean(OfInts(upperIdxs))
           upperIdxStdDev == NpStd(OfInts(upperIdxs))
           innerDiameterPx == [i \in DOMAIN minimaArr |-> DiameterPx(minimaArr[i]).value]
       IN  stats' = [computed |-> TRUE,
                     lowerIdxMean |-> lowerIdxMean,
                     lowerIdxStdDev |-> lowerIdxStdDev,
                     upperIdxMean |-> upperIdxMean,
                     upperIdxStdDev |-> upperIdxStdDev,
                     innerDiameterPx |-> innerDiameterPx,
                     innerDiameterPxMean |-> RatMean(OfInts(innerDiameterPx)),
                     innerDiameterPxStdDev |-> NpStd(OfInts(innerDiameterPx)),
                     innerDiameterPxMeanWalls |-> RatSub(upperIdxMean, lowerIdxMean),
                     innerDiameterPxMeansWallErr |->
                         NpSqrt(RatAdd(RootSq(upperIdxStdDev), RootSq(lowerIdxStdDev)))]
    /\ maPc' = "magnification"
    /\ UNCHANGED <<maArgs, maImages, maLoop, magnification, results>>
    /\ UNCHANGED notMA

\* lines 493-499
MAMagnification ==
    /\ maPc = "magnification"
    /\ stageLog' = Append(stageLog, "magnification")
    /\ magnification' = MagnificationUmPx(stats.innerDiameterPxMean,
                                          stats.innerDiameterPxStdDev,
                                          maArgs.innerDiameterUm,
                                          maArgs.innerDiameterErrUm)
    /\ maPc' = IF magnification'.kind = "return" THEN "results" ELSE "raised"
    /\ UNCHANGED <<maArgs, maImages, maLoop, stats, results>>
    /\ UNCHANGED notMA

\* lines 501-566
MAResults ==
    /\ maPc = "results"
    /\ stageLog' = Append(stageLog, "results")
    /\ LET umPerPx == magnification.value.umPerPx
           centerPxMean == RatMean(centerIdxs)
           lineoutXFlat == Arange(0, Shape(flattened)[1])
       IN  results' =
             [returned |-> TRUE,
              umPerPx |-> umPerPx,
              stdDevUmPx |-> magnification.value.stdDevUmPx,
              centerPxMean |-> centerPxMean,
              centerPxStdDev |-> NpStd(centerIdxs),
              centerPxMeanWalls |->
                  RatDiv(RatAdd(stats.upperIdxMean, stats.lowerIdxMean), RatOfInt(2)),
              centerPxMeanWallsErr |->
                  [sgn |-> Sign(RatAdd(RootSq(stats.upperIdxStdDev),
                                       RootSq(stats.lowerIdxStdDev)).n),
                   sq |-> RatDiv(RatAdd(RootSq(stats.upperIdxStdDev),
                                        RootSq(stats.lowerIdxStdDev)), RatOfInt(4))],
              lowerIdxs |-> lowerIdxs,
              upperIdxs |-> upperIdxs,
              centerIdxs |-> centerIdxs,
              lineoutIdxs |-> lineoutIdxs,
              innerDiameterPxMean |-> stats.innerDiameterPxMean,
              innerDiameterPxStdDev |-> stats.innerDiameterPxStdDev,
              innerDiameterPxMeanWalls |-> stats.innerDiameterPxMeanWalls,
              innerDiameterPxMeansWallErr |-> stats.innerDiameterPxMeansWallErr,
              lineoutAvg |-> lineoutAvg,
              lineoutRadii |->
                  [i \in DOMAIN lineoutXFlat |->
                      RatMul(umPerPx,
                             RatSub(RatOfInt(lineoutXFlat[i] + maArgs.yMin), centerPxMean))]]
    /\ maPc' = "done"
    /\ UNCHANGED <<maArgs, maImages, maLoop, stats, magnification>>
    /\ UNCHANGED notMA

MANext ==
    \/ MARead \/ MACrop \/ MARotate \/ MAEnhance \/ MALineoutsBegin
    \/ MALineout \/ MAStatistics \/ MAMagnification \/ MAResults

\* ======================================================== detectShock
\* An image of detectShock is a function of the pixel <<row, column>>.
Pixels == (0..(ImgRows - 1)) \X (0..(ImgCols - 1))

\* the place of a pixel in row-major order
Raster(p) == p[1] * ImgCols + p[2]

ImgMax(img) == SetMax({img[p] : p \in Pixels})

\* skimage.morphology.disk(r), as offsets from its centre
Disk(r) == {d \in ((-r)..r) \X ((-r)..r) : d[1] * d[1] + d[2] * d[2] <= r * r}

Clamp(x, lo, hi) == IF x < lo THEN lo ELSE IF x > hi THEN hi ELSE x

\* the pixels of the image under the footprint disk(r) centred on p
NeighboursIn(p, r) == {q \in Pixels : <<q[1] - p[1], q[2] - p[2]>> \in Disk(r)}

\* the samples under the footprint, those past the border taken from the
\* nearest pixel of the image (scipy.ndimage mode 'nearest')
SamplesNearest(img, p, r) ==
    [d \in Disk(r) |-> img[<<Clamp(p[1] + d[1], 0, ImgRows - 1),
                             Clamp(p[2] + d[2], 0, ImgCols - 1)>>]]

\* the samples under the footprint, those past the border left out
\* (skimage.filters.rank)
SamplesIn(img, p, r) == [q \in NeighboursIn(p, r) |-> img[q]]

\* the median of the samples: the least value that more than half of them
\* do not exceed
MedianOf(samples) ==
    LET n == Cardinality(DOMAIN samples)
        AtMost(v) == Cardinality({d \in DOMAIN samples : samples[d] <= v})
    IN  SetMin({samples[d] : d \in {e \in DOMAIN samples : 2 * AtMost(samples[e]) > n}})

\* skimage.filters.median(image, disk(r)): scipy.ndimage.median_filter
MedianNdimage(img, r) == [p \in Pixels |-> MedianOf(SamplesNearest(img, p, r))]

\* skimage.filters.median(image, disk(r)) of the releases that hand it to
\* skimage.filters.rank.median
MedianRank(img, r) == [p \in Pixels |-> MedianOf(SamplesIn(img, p, r))]

\* the outcomes of median(image, disk(medianDisk)) over the releases of
\* skimage that still have skimage.morphology.watershed
Median(img, r) == {MedianNdimage(img, r), MedianRank(img, r)}

\* denoised / np.max(denoised)
Normalize(img) == [p \in Pixels |-> Rat(img[p], ImgMax(img))]

\* np.rint(n / d) for n >= 0, d > 0: halves go to the even neighbour
RintDiv(n, d) ==
    LET q == n \div d
        r == n % d
    IN  IF 2 * r < d THEN q
        ELSE IF 2 * r > d THEN q + 1
        ELSE IF q % 2 = 0 THEN q ELSE q + 1

\* skimage.img_as_ubyte of a float image with values in 0..1
FloatAsUbyte(img) == [p \in Pixels |-> RintDiv(255 * img[p].n, img[p].d)]

\* skimage.img_as_ubyte of a boolean image (True is 1, False is 0)
BoolAsUbyte(mask) == [p \in Pixels |-> 255 * mask[p]]

\* skimage.filters.rank.gradient(image, disk(r)), image of 8 bits
RankGradient(img, r) ==
    [p \in Pixels |-> SetMax({img[q] : q \in NeighboursIn(p, r)})
                        - SetMin({img[q] : q \in NeighboursIn(p, r)})]

\* skimage.filters.rank.minimum(image, disk(r))
RankMinimum(img, r) == [p \in Pixels |-> SetMin({img[q] : q \in NeighboursIn(p, r)})]

\* skimage.filters.rank.maximum(image, disk(r))
RankMaximum(img, r) == [p \in Pixels |-> SetMax({img[q] : q \in NeighboursIn(p, r)})]

\* rankGrad < gradientThreshold: a boolean image, True is 1
LessThan(img, threshold) == [p \in Pixels |-> IF img[p] < threshold THEN 1 ELSE 0]

\* line 172: maximum(minimum(markers, disk(morphDisk)), disk(morphDisk))
MorphMarkers(mask, r) == RankMaximum(RankMinimum(BoolAsUbyte(mask), r), r)

\* the morphological step, were it applied whatever morphDisk is
MorphStepAlways(mask, r) == MorphMarkers(mask, r)

\* lines 171-174: the step is applied only when morphDisk != 0
MorphStep(mask, r) == IF r # 0 THEN MorphMarkers(mask, r) ELSE mask

\* pixels that share a side
Adjacent(p, q) == Abs(p[1] - q[1]) + Abs(p[2] - q[2]) = 1

\* flags the pixels of S that are flagged in R or joined to one that is
RECURSIVE Spread(_, _)
Spread(S, R) ==
    LET R2 == [p \in Pixels |->
                 p \in S /\ (R[p] \/ \E q \in Pixels : Adjacent(p, q) /\ q \in S /\ R[q])]
    IN  IF R2 = R THEN R ELSE Spread(S, R2)

\* the pixels of S joined to those of F through pixels of S
Grow(S, F) ==
    LET R == Spread(S, [p \in Pixels |-> p \in S /\ p \in F])
    IN  {p \in Pixels : R[p]}

\* gives every pixel of S the least row-major place among the pixels of S
\* it is joined to
RECURSIVE FirstRaster(_, _)
FirstRaster(S, L) ==
    LET L2 == [p \in Pixels |->
                 IF p \in S
                 THEN SetMin({L[q] : q \in {n \in S : n = p \/ Adjacent(p, n)}})
                 ELSE -1]
    IN  IF L2 = L THEN L ELSE FirstRaster(S, L2)

\* scipy.ndimage.label(img)[0]: the connected groups of non-zero pixels,
\* numbered from 1 in the order a row-major scan meets them
Label(img) ==
    LET S == {p \in Pixels : img[p] # 0}
        L == FirstRaster(S, [p \in Pixels |-> IF p \in S THEN Raster(p) ELSE -1])
        firsts == {L[p] : p \in S}
    IN  [p \in Pixels |->
            IF p \notin S THEN 0 ELSE Cardinality({r \in firsts : r <= L[p]})]

\* skimage.morphology.watershed(image, markers, compactness): every
\* outcome that keeps the labels of the marked pixels and floods each
\* other pixel from a marker it is joined to.  Without a marker nothing
\* is flooded.
Watershed(image, mk) ==
    LET M == {p \in Pixels : mk[p] # 0}
        K == {mk[p] : p \in M}
    IN  IF M = {} THEN {mk}
        ELSE { [p \in Pixels |-> IF p \in M THEN mk[p] ELSE fill[p]] :
                 fill \in { f \in [Pixels \ M -> K] :
                    LET L == [p \in Pixels |-> IF p \in M THEN mk[p] ELSE f[p]]
                    IN  \A k \in K :
                          LET region == {p \in Pixels : L[p] = k}
                              seed == CHOOSE p \in M : mk[p] = k
                          IN  Grow(region, {seed}) = region } }

\* ---------------------------------------------------------- nSegments
\* a[::-1]
Reversed(a) == [i \in DOMAIN a |-> a[ALen(a) - 1 - i]]

\* the labels of an image, were the background label 0 a region
RegionLabelsWithBackground(lab) == AscendingArr({lab[p] : p \in Pixels})

\* the labels skimage.measure.regionprops reports, in ascending order
RegionLabels(lab) == AscendingArr({lab[p] : p \in Pixels} \ {0})

\* regionprops 'filled_area': the pixels of the region and of its holes,
\* the pixels of its bounding box that it cuts off from the box's border
FilledArea(lab, k) ==
    LET region == {p \in Pixels : lab[p] = k}
        rows == {p[1] : p \in region}
        cols == {p[2] : p \in region}
        box == {p \in Pixels : /\ SetMin(rows) <= p[1] /\ p[1] <= SetMax(rows)
                               /\ SetMin(cols) <= p[2] /\ p[2] <= SetMax(cols)}
        outside == box \ region
        rim == {p \in outside : \/ p[1] \in {SetMin(rows), SetMax(rows)}
                                \/ p[2] \in {SetMin(cols), SetMax(cols)}}
    IN  Cardinality(region) + Cardinality(outside \ Grow(outside, rim))

\* nSegments(labels, n): every array it can return (np.argsort may put
\* equal areas in either order)
NSegments(lab, n) ==
    LET numbers == RegionLabels(lab)
        areas == [i \in DOMAIN numbers |-> FilledArea(lab, numbers[i])]
    IN  { Take(numbers, Head2(Reversed(areasIdxSorted), n)) :
            areasIdxSorted \in Argsort(areas) }

\* --------------------------------------------------------- nContours
\* the first n contours in ascending order of length (line 27 without [::-1])
NContoursAscending(contours, n) ==
    LET contLens == [i \in DOMAIN contours |-> contours[i].len]
    IN  { Take(contours, Head2(contIdxSorted, n)) :
            contIdxSorted \in Argsort(contLens) }

\* nContours(contours, n): every array it can return
NContours(contours, n) ==
    LET contLens == [i \in DOMAIN contours |-> contours[i].len]
    IN  { Take(contours, Head2(Reversed(contIdxSorted), n)) :
            contIdxSorted \in Argsort(contLens) }

\* ----------------------------------------------------- segmentContour
\* labels == segmentNumber
BinImg(lab, segmentNumber) ==
    [p \in Pixels |-> IF lab[p] = segmentNumber THEN 1 ELSE 0]

\* skimage.measure.find_contours(binImg, 0): no contour when the image is
\* all of one value; otherwise one or more contours, of which only the
\* number of points is kept
FindContours(bin) ==
    IF \A p, q \in Pixels : bin[p] = bin[q]
    THEN {EmptyArr}
    ELSE UNION { [0..(n - 1) -> [len : {2, 3}]] : n \in 1..2 }

\* segmentContour(labels, segmentNumber): the contours it can return, or
\* IndexError when find_contours found none
SegmentContour(lab, segmentNumber) ==
    UNION { IF ALen(contoursSegment) = 0
            THEN {Raised("IndexError")}
            ELSE { Returned(longest[0]) : longest \in NContours(contoursSegment, 1) } :
            contoursSegment \in FindContours(BinImg(lab, segmentNumber)) }

\* -------------------------------------------------------- detectShock
\* a shock front: columns left of column f at gray level lo, the others hi
FrontImage(f, lo, hi) == [p \in Pixels |-> IF p[2] < f THEN lo ELSE hi]

\* a flat image with pixel q at gray level v
DefectImage(bg, q, v) == [p \in Pixels |-> IF p = q THEN v ELSE bg]

ShockImages ==
    { FrontImage(f, lo, MaxGray) : f \in 1..(ImgCols - 1), lo \in 1..MaxGray }
    \cup { DefectImage(1, q, MaxGray) : q \in Pixels }

DSArgSets ==
    [image : ShockImages,
     medianDisk : 0..1,
     gradientDiskMarkers : {1},
     gradientThreshold : {DefaultGradientThreshold, 128},
     gradientDiskWatershed : 0..1,
     morphDisk : 0..1,
     nSegs : {1, MaxSegs}]

\* the markers handed to watershed, were they the thresholded mask
WatershedMarkersRaw == thresholded

\* line 189: watershed(gradient2, markers, ...)
WatershedMarkers == markers

\* no call of detectShock in progress
DSIdle ==
    /\ dsArgs = [nSegs |-> 0]
    /\ dsPc = "idle"
    /\ stepLog = <<>>
    /\ denoised = <<>> /\ denoised_norm = <<>> /\ rankGrad = <<>>
    /\ thresholded = <<>> /\ closing = <<>> /\ markers = <<>>
    /\ gradient2 = <<>> /\ watershedCall = [called |-> FALSE] /\ labels = <<>>
    /\ largestSegments = EmptyArr /\ contoursList = <<>>
    /\ dsOutcome = Pending

DSInit ==
    /\ dsArgs \in DSArgSets
    /\ dsPc = "median"
    /\ stepLog = <<>>
    /\ denoised = <<>> /\ denoised_norm = <<>> /\ rankGrad = <<>>
    /\ thresholded = <<>> /\ closing = <<>> /\ markers = <<>>
    /\ gradient2 = <<>> /\ watershedCall = [called |-> FALSE] /\ labels = <<>>
    /\ largestSegments = EmptyArr /\ contoursList = <<>>
    /\ dsOutcome = Pending

\* lines 160-162, step 1
DSMedian ==
    /\ dsPc = "median"
    /\ stepLog' = Append(stepLog, "median")
    /\ denoised' \in Median(dsArgs.image, dsArgs.medianDisk)
    /\ denoised_norm' = Normalize(denoised')
    /\ dsPc' = "markers"
    /\ UNCHANGED <<dsArgs, rankGrad, thresholded, closing, markers, gradient2,
                   watershedCall, labels, largestSegments, contoursList, dsOutcome>>
    /\ UNCHANGED notDS

\* lines 163-167, step 2
DSMarkers ==
    /\ dsPc = "markers"
    /\ stepLog' = Append(stepLog, "markers")
    /\ rankGrad' = RankGradient(FloatAsUbyte(denoised_norm), dsArgs.gradientDiskMarkers)
    /\ markers' = LessThan(rankGrad', dsArgs.gradientThreshold)
    /\ thresholded' = markers'
    /\ dsPc' = "morph"
    /\ UNCHANGED <<dsArgs, denoised, denoised_norm, closing, gradient2,
                   watershedCall, labels, largestSegments, contoursList, dsOutcome>>
    /\ UNCHANGED notDS

\* lines 169-174, step 3
DSMorph ==
    /\ dsPc = "morph"
    /\ stepLog' = Append(stepLog, "morph")
    /\ closing' = MorphStep(markers, dsArgs.morphDisk)
    /\ dsPc' = "label"
    /\ UNCHANGED <<dsArgs, denoised, denoised_norm, rankGrad, markers, thresholded,
                   gradient2, watershedCall, labels, largestSegments, contoursList,
                   dsOutcome>>
    /\ UNCHANGED notDS

\* lines 181-182: the markers become the labelled regions of step 3
DSLabel ==
    /\ dsPc = "label"
    /\ markers' = Label(closing)
    /\ dsPc' = "gradient2"
    /\ UNCHANGED <<dsArgs, stepLog, denoised, denoised_norm, rankGrad, thresholded,
                   closing, gradient2, watershedCall, labels, largestSegments,
                   contoursList, dsOutcome>>
    /\ UNCHANGED notDS

\* lines 184-186, step 4
DSGradient2 ==
    /\ dsPc = "gradient2"
    /\ stepLog' = Append(stepLog, "gradient2")
    /\ gradient2' = RankGradient(FloatAsUbyte(denoised_norm), dsArgs.gradientDiskWatershed)
    /\ dsPc' = "watershed"
    /\ UNCHANGED <<dsArgs, denoised, denoised_norm, rankGrad, thresholded, closing,
                   markers, watershedCall, labels, largestSegments, contoursList,
                   dsOutcome>>
    /\ UNCHANGED notDS

\* lines 188-189, step 5
DSWatershed ==
    /\ dsPc = "watershed"
    /\ stepLog' = Append(stepLog, "watershed")
    /\ watershedCall' = [called |-> TRUE, image |-> gradient2, markers |-> WatershedMarkers]
    /\ labels' \in Watershed(gradient2, WatershedMarkers)
    /\ dsPc' = "segments"
    /\ UNCHANGED <<dsArgs, denoised, denoised_norm, rankGrad, thresholded, closing,
                   markers, gradient2, largestSegments, contoursList, dsOutcome>>
    /\ UNCHANGED notDS

\* lines 191-193
DSSegments ==
    /\ dsPc = "segments"
    /\ largestSegments' \in NSegments(labels, dsArgs.nSegs)
    /\ contoursList' = <<>>
    /\ dsPc' = IF ALen(largestSegments') = 0 THEN "return" ELSE "contours"
    /\ UNCHANGED <<dsArgs, stepLog, denoised, denoised_norm, rankGrad, thresholded,
                   closing, markers, gradient2, watershedCall, labels, dsOutcome>>
    /\ UNCHANGED notDS

\* lines 194-200, one pass of the loop
DSSegmentContour ==
    /\ dsPc = "contours"
    /\ \E contourLongest \in SegmentContour(labels, largestSegments[Len(contoursList)]) :
         IF contourLongest.kind = "return"
         THEN /\ contoursList' = Append(contoursList, contourLongest.value)
              /\ dsPc' = IF Len(contoursList') = ALen(largestSegments)
                         THEN "return" ELSE "contours"
              /\ UNCHANGED dsOutcome
         ELSE /\ dsOutcome' = contourLongest
              /\ dsPc' = "raised"
              /\ UNCHANGED contoursList
    /\ UNCHANGED <<dsArgs, stepLog, denoised, denoised_norm, rankGrad, thresholded,
                   closing, markers, gradient2, watershedCall, labels, largestSegments>>
    /\ UNCHANGED notDS

\* line 268
DSReturn ==
    /\ dsPc = "return"
    /\ dsOutcome' = Returned([labels |-> labels, contoursList |-> contoursList,
                              gradient2 |-> gradient2, markers |-> markers])
    /\ dsPc' = "done"
    /\ UNCHANGED <<dsArgs, stepLog, denoised, denoised_norm, rankGrad, thresholded,
                   closing, markers, gradient2, watershedCall, labels, largestSegments,
                   contoursList>>
    /\ UNCHANGED notDS

DSNext ==
    \/ DSMedian \/ DSMarkers \/ DSMorph \/ DSLabel \/ DSGradient2 \/ DSWatershed
    \/ DSSegments \/ DSSegmentContour \/ DSReturn

\* ------------------------------------- calls of nContours and nSegments
\* lists of contours: a contour is its number of points (len) and a tag
\* standing for the points themselves
ContourLists ==
    UNION { { [i \in 0..(k - 1) |-> [len |-> lens[i], pts |-> i]] :
                lens \in [0..(k - 1) -> 1..MaxContourLen] } : k \in 0..MaxContours }

NContoursCalls ==
    [fn : {"nContours"}, contours : ContourLists, n : 0..(MaxContours + 1)]

\* a labelled image in three bands of columns
BandImage(a, b, k1, k2, k3) ==
    [p \in Pixels |-> IF p[2] < a THEN k1 ELSE IF p[2] < b THEN k2 ELSE k3]

\* a labelled image of one label but for pixel q
PatchImage(k1, q, k2) == [p \in Pixels |-> IF p = q THEN k2 ELSE k1]

\* a labelled image of runs of one, two and three pixels in row-major
\* order, and a last run of the pixels left
StairImage(k1, k2, k3, k4) ==
    [p \in Pixels |-> IF Raster(p) < 1 THEN k1
                      ELSE IF Raster(p) < 3 THEN k2
                      ELSE IF Raster(p) < 6 THEN k3 ELSE k4]

LabelImages ==
    { BandImage(a, b, k1, k2, k3) :
        a \in 0..ImgCols, b \in 0..ImgCols, k1 \in 0..(MaxSegs + 1),
        k2 \in 0..(MaxSegs + 1), k3 \in 0..(MaxSegs + 1) }
    \cup { PatchImage(k1, q, k2) :
        k1 \in 0..(MaxSegs + 1), q \in Pixels, k2 \in 0..(MaxSegs + 1) }
    \cup { StairImage(k1, k2, k3, k4) :
        k1 \in 0..(MaxSegs + 1), k2 \in 0..(MaxSegs + 1),
        k3 \in 0..(MaxSegs + 1), k4 \in 0..(MaxSegs + 1) }

NSegmentsCalls ==
    [fn : {"nSegments"}, labels : LabelImages, n : 0..(MaxSegs + 2)]

SelInit ==
    /\ call \in NContoursCalls \cup NSegmentsCalls
    /\ outcome = Pending

NContoursCall ==
    /\ call.fn = "nContours"
    /\ outcome.kind = "pending"
    /\ \E longestContours \in NContours(call.contours, call.n) :
         outcome' = Returned(longestContours)
    /\ UNCHANGED call
    /\ UNCHANGED notFn

NSegmentsCall ==
    /\ call.fn = "nSegments"
    /\ outcome.kind = "pending"
    /\ \E segs \in NSegments(call.labels, call.n) :
         outcome' = Returned(segs)
    /\ UNCHANGED call
    /\ UNCHANGED notFn

SelNext == NContoursCall \/ NSegmentsCall

\* ------------------------------------------------------ specifications
InitLM == LMInit /\ FnIdle /\ MAIdle /\ DSIdle

SpecLM == InitLM /\ [][LMNext]_vars

InitFn == FnInit /\ LMIdle /\ MAIdle /\ DSIdle

SpecFn == InitFn /\ [][FnNext]_vars

InitMA == MAInit /\ LMIdle /\ FnIdle /\ DSIdle

SpecMA == InitMA /\ [][MANext]_vars

InitDS == DSInit /\ LMIdle /\ FnIdle /\ MAIdle

SpecDS == InitDS /\ [][DSNext]_vars

InitSel == SelInit /\ LMIdle /\ MAIdle /\ DSIdle

SpecSel == InitSel /\ [][SelNext]_vars

\* ======================================================= claims C1, C2
LMSearched == lmPc \in {"select", "done"}

\* the integer part of w/2 for w >= 0, stated without \div
HalfWidth(w) == CHOOSE q \in 0..w : 2 * q <= w /\ w < 2 * q + 2

\* C1: peak detection is retried at most once per call of lineoutMinima.
\* The first search uses width peakWidth; when it finds fewer than 2 peaks
\* exactly one more search is made, with width int(peakWidth/2); when it
\* finds 2 or more there is no retry; there is never a third search.
C1_RetryAtMostOnce ==
    /\ Len(findCalls) <= 2
    /\ (lmPc \in {"smooth", "find"}) => findCalls = <<>>
    /\ lmPc = "retry" => (findCalls = <<peakWidth>> /\ firstCount < 2)
    /\ LMSearched =>
         IF firstCount >= 2
         THEN findCalls = <<peakWidth>>
         ELSE findCalls = <<peakWidth, HalfWidth(peakWidth)>>

\* C1 witness: the retry was made, it still found fewer than 2 peaks, and
\* the call went on to return without another search
C1_Witness ==
    /\ lmPc = "done"
    /\ firstCount < 2
    /\ Len(findCalls) = 2
    /\ findCalls[2] < findCalls[1]
    /\ ALen(peaks) < 2

PeakSet == {peaks[i] : i \in DOMAIN peaks}

ReturnedSet == {minimaIdxs[i] : i \in DOMAIN minimaIdxs}

\* C2: lineoutMinima returns the 2 deepest minima of the smoothed lineout.
\* With k peaks found by the final search, the three returned arrays have
\* length min(2, k); the returned indices are distinct found peaks, none
\* of the peaks left out is deeper than a returned one, and the returned
\* x and y are lineoutX and lineoutSmoothed at the returned indices.
C2_TwoDeepestMinima ==
    lmPc = "done" =>
        LET k == ALen(peaks)
            m == IF k < 2 THEN k ELSE 2
        IN  /\ DOMAIN minimaIdxs = 0..(m - 1)
            /\ DOMAIN minimaPeaksXFilt = 0..(m - 1)
            /\ DOMAIN minimaPeaksYFilt = 0..(m - 1)
            /\ ReturnedSet \subseteq PeakSet
            /\ Cardinality(ReturnedSet) = m
            /\ \A i \in ReturnedSet : \A p \in PeakSet \ ReturnedSet :
                   lineoutSmoothed[i] <= lineoutSmoothed[p]
            /\ \A i \in 0..(m - 1) :
                   /\ minimaPeaksXFilt[i] = lineoutX[minimaIdxs[i]]
                   /\ minimaPeaksYFilt[i] = lineoutSmoothed[minimaIdxs[i]]

\* C2 witness: three or more minima were found, and one that was left out
\* is strictly shallower than both returned ones
C2_Witness ==
    /\ lmPc = "done"
    /\ ALen(peaks) >= 3
    /\ ALen(minimaIdxs) = 2
    /\ \E p \in PeakSet \ ReturnedSet : \A i \in ReturnedSet :
           lineoutSmoothed[i] < lineoutSmoothed[p]


\* ================================================== claims C3, C4, C5
StageOrder ==
    <<"read", "crop", "rotate", "enhance", "lineouts", "statistics",
      "magnification", "results">>

MAReached(stage) == \E k \in 1..Len(stageLog) : stageLog[k] = stage

\* the lineouts of the loop whose edges are recorded
Recorded ==
    {i \in DOMAIN lowerIdxs :
        /\ maPc \in {"loop", "raised", "statistics", "magnification", "results", "done"}
        /\ i < idx}

\* C3: magnificationAnalysis runs its stages in one fixed order, none
\* skipped and none entered twice: read, crop, rotate, enhance, lineout
\* edge finding, statistics, magnificationUmPx, results.  Each stage works
\* on what the stage before it produced: the crop is a crop of the image
\* read, with 'horizontal' extents; the rotation is a rotation of the crop,
\* with 'vertical' extents and the pixel reference of the crop; the image
\* enhanced is the rotated one; the lineouts are rows of the flattened
\* image; the statistics are those of the recorded edges; the
\* magnification is that of the mean diameter; the results hold them all.
C3_StagesInOrder ==
    /\ Len(stageLog) <= Len(StageOrder)
    /\ \A k \in 1..Len(stageLog) : stageLog[k] = StageOrder[k]
    /\ maPc = "done" => stageLog = StageOrder
    /\ MAReached("crop") =>
         /\ \A r \in DOMAIN img_crop : \A c \in DOMAIN img_crop[r] :
              img_crop[r][c] = imgRaw[maArgs.yMin + r][maArgs.xMin + c]
         /\ pxRefCrop[0] = maArgs.pxRef[0] - maArgs.xMin
         /\ pxRefCrop[1] = maArgs.pxRef[1] - maArgs.yMin
         /\ extent_crop[1] = maArgs.umRef[0] + pxRefCrop[0] * maArgs.px2Um
    /\ MAReached("rotate") =>
         /\ NRows(img_rot) = NCols(img_crop) /\ NCols(img_rot) = NRows(img_crop)
         /\ \A r \in DOMAIN img_rot : \A c \in DOMAIN img_rot[r] :
              img_rot[r][c] = img_crop[c][NCols(img_crop) - 1 - r]
         /\ pxRefRot[0] = maArgs.pxRef[1] - maArgs.yMin
         /\ pxRefRot[1] = NCols(img_crop) - (maArgs.pxRef[0] - maArgs.xMin)
         /\ extent_rot[1] = maArgs.umRef[1] - pxRefRot[0] * maArgs.px2Um
    /\ MAReached("enhance") =>
         /\ enhanceInput = img_rot
         /\ NRows(flattened) = NRows(img_rot) /\ NCols(flattened) = NCols(img_rot)
    /\ \A i \in Recorded :
         \E found \in LineoutMinima(Arange(0, NCols(flattened)),
                                    flattened[lineoutIdxs[i]], AnalysisPeakWidth) :
            /\ ALen(found.minimaIdxs) = 2
            /\ minimaArr[i] = [j \in 0..1 |-> found.minimaIdxs[j] + maArgs.yMin]
    /\ MAReached("statistics") =>
         /\ idx = ALen(lineoutIdxs)
         /\ stats.computed
         /\ RatMul(stats.lowerIdxMean, RatOfInt(ALen(lowerIdxs)))
              = RatSumTo(OfInts(lowerIdxs), ALen(lowerIdxs))
         /\ RatMul(stats.upperIdxMean, RatOfInt(ALen(upperIdxs)))
              = RatSumTo(OfInts(upperIdxs), ALen(upperIdxs))
         /\ \A i \in DOMAIN lowerIdxs :
              stats.innerDiameterPx[i] = upperIdxs[i] - lowerIdxs[i]
    /\ MAReached("magnification") =>
         /\ magnification.kind = "return"
         /\ RatMul(magnification.value.umPerPx, stats.innerDiameterPxMean)
              = maArgs.innerDiameterUm
    /\ MAReached("results") =>
         /\ results.returned
         /\ results.umPerPx = magnification.value.umPerPx
         /\ results.stdDevUmPx = magnification.value.stdDevUmPx
         /\ results.lowerIdxs = lowerIdxs /\ results.upperIdxs = upperIdxs
         /\ results.innerDiameterPxMean = stats.innerDiameterPxMean

\* C3 witness: an analysis ran to its end, on a crop that moves the pixel
\* reference along both axes
C3_Witness ==
    /\ maPc = "done"
    /\ stageLog = StageOrder
    /\ maArgs.xMin > 0 /\ maArgs.yMin > 0
    /\ ALen(lineoutIdxs) = 2

\* the smoothed lineout the edges of row i were found on
SmoothedRow(i) == SavgolFilter(flattened[lineoutIdxs[i]])

\* the first and last sample of the run of equal values around sample p
PlateauLeft(x, p) == SetMin({a \in 0..p : \A j \in a..p : x[j] = x[p]})

PlateauRight(x, p) ==
    SetMax({b \in p..(ALen(x) - 1) : \A j \in p..b : x[j] = x[p]})

\* twice the position of the centre of the minimum around sample p
TwiceCentre(x, p) == PlateauLeft(x, p) + PlateauRight(x, p)

RecordedEdges(i) == {lowerIdxs[i], upperIdxs[i]}

\* C4 as stated (sub-pixel localization): a recorded edge is the position of
\* the minimum of the smoothed lineout to better than a pixel, so the centre
\* of a minimum two samples wide is recorded half-way between them.
C4_SubPixelEdges ==
    \A i \in Recorded : \A e \in RecordedEdges(i) :
        2 * (e - maArgs.yMin) = TwiceCentre(SmoothedRow(i), e - maArgs.yMin)

\* C4 amended (whole-pixel localization): every recorded edge is yMin plus
\* an integer sample index of the lineout, the centre of the minimum
\* rounded down to a sample; the per-lineout centre is the only position
\* recorded that falls between two pixels.
C4_WholePixelEdges ==
    \A i \in Recorded :
        /\ \A e \in RecordedEdges(i) :
             /\ e - maArgs.yMin \in 0..(NCols(flattened) - 1)
             /\ TwiceCentre(SmoothedRow(i), e - maArgs.yMin) - 2 * (e - maArgs.yMin)
                  \in {0, 1}
        /\ RatMul(centerIdxs[i], RatOfInt(2)) = RatOfInt(lowerIdxs[i] + upperIdxs[i])

\* C4 witness: the analysis ended having recorded, as a whole pixel, an
\* edge whose minimum is centred between two samples
C4_Witness ==
    /\ maPc = "done"
    /\ \E i \in Recorded :
         TwiceCentre(SmoothedRow(i), lowerIdxs[i] - maArgs.yMin)
           = 2 * (lowerIdxs[i] - maArgs.yMin) + 1

\* sample p lies in a minimum of x: lower than the samples on both sides
IsMinimumAt(x, p) ==
    /\ p \in DOMAIN x
    /\ PlateauLeft(x, p) > 0 /\ PlateauRight(x, p) < ALen(x) - 1
    /\ x[PlateauLeft(x, p) - 1] > x[p]
    /\ x[PlateauRight(x, p) + 1] > x[p]

\* C5: the recorded edges are rows of the uncropped raw image.  Column c
\* of the rotated image is row c + yMin of the raw image (the crop rotated
\* a quarter turn counter-clockwise), the flattened image has the shape of
\* the rotated one, and every recorded edge e is a row of the raw image
\* inside the crop whose column e - yMin holds a minimum of the lineout.
C5_RawImageRows ==
    /\ MAReached("rotate") =>
         /\ NCols(img_rot) = maArgs.yMax - maArgs.yMin
         /\ \A r \in DOMAIN img_rot : \A c \in DOMAIN img_rot[r] :
              img_rot[r][c] = imgRaw[c + maArgs.yMin][maArgs.xMax - 1 - r]
    /\ \A i \in Recorded : \A e \in RecordedEdges(i) :
         /\ e \in maArgs.yMin..(maArgs.yMax - 1)
         /\ e \in DOMAIN imgRaw
         /\ NCols(flattened) = NCols(img_rot)
         /\ IsMinimumAt(SmoothedRow(i), e - maArgs.yMin)
         /\ img_rot[lineoutIdxs[i]][e - maArgs.yMin]
              = imgRaw[e][maArgs.xMax - 1 - lineoutIdxs[i]]

\* C5 witness: the analysis ended on a crop that starts below the first
\* row of the raw image, at a row offset unlike the column offset
C5_Witness ==
    /\ maPc = "done"
    /\ maArgs.yMin > 0
    /\ maArgs.xMin # maArgs.yMin
    /\ Recorded # {}

\* =================================================== claims C6, C7, C8, C9
CallDone(fn) == call.fn = fn /\ outcome.kind # "pending"

\* the centre c (a fraction) is (min + max) / 2 of the two indices
IsCenterOf(c, idxs) == 2 * c.n = (ArrMin(idxs) + ArrMax(idxs)) * c.d

\* C6 as claimed: tubeCenterPx returns (min(minimaIdxs) + max(minimaIdxs))/2
\* when minimaIdxs has shape (2,), and raises an Exception, returning no
\* centre, for 0, 1, or 3 or more minima.
C6_CenterOrException ==
    CallDone("tubeCenterPx") =>
        IF ALen(call.minimaIdxs) = 2
        THEN outcome.kind = "return" /\ IsCenterOf(outcome.value, call.minimaIdxs)
        ELSE outcome.kind = "Exception"

\* C7 as claimed: lineoutY is only used for plotting, so a call with two
\* minima, lineoutY left at its default None and plotsFlag=False completes
\* without error and returns the centre.
C7_DefaultLineoutYReturns ==
    ( /\ CallDone("tubeCenterPx")
      /\ ALen(call.minimaIdxs) = 2
      /\ call.lineoutY.none
      /\ ~call.plotsFlag )
    => (outcome.kind = "return" /\ IsCenterOf(outcome.value, call.minimaIdxs))

Swapped(idxs) == [i \in 0..1 |-> idxs[1 - i]]

\* C8: diameterPx returns max(minimaIdxs) - min(minimaIdxs) for a
\* two-element input: the distance of the two minima, which is not
\* negative and is the same with the two minima swapped; for every other
\* shape it raises an Exception instead.
C8_DiameterOrException ==
    CallDone("diameterPx") =>
        IF ALen(call.minimaIdxs) = 2
        THEN /\ outcome.kind = "return"
             /\ outcome.value = Abs(call.minimaIdxs[0] - call.minimaIdxs[1])
             /\ outcome.value >= 0
             /\ DiameterPx(Swapped(call.minimaIdxs)) = outcome
        ELSE outcome.kind = "Exception"

\* C8 witness: the upper edge was handed in first, and a positive
\* diameter came back
C8_Witness ==
    /\ CallDone("diameterPx")
    /\ ALen(call.minimaIdxs) = 2
    /\ call.minimaIdxs[0] > call.minimaIdxs[1]
    /\ outcome.kind = "return"
    /\ outcome.value > 0

\* C9: magnificationUmPx returns umPerPx = innerDiameterUm/innerDiameterPx
\* and the uncertainty sqrt((innerDiameterErrUm/innerDiameterPx)^2 +
\* (umPerPx*stdDevPx/innerDiameterPx)^2); the uncertainty is 0 when stdDevPx
\* and innerDiameterErrUm are 0, and it is never negative.
C9_MagnificationAndUncertainty ==
    CallDone("magnificationUmPx") =>
        LET px == call.innerDiameterPx
            um == call.innerDiameterUm
            err == call.innerDiameterErrUm
            sd == call.stdDevPx
        IN  px.n # 0 =>
              /\ outcome.kind = "return"
              /\ LET umPerPx == outcome.value.umPerPx
                     unc == outcome.value.stdDevUmPx
                 IN  /\ umPerPx.n * px.n * um.d = um.n * umPerPx.d * px.d
                     /\ unc.sgn >= 0
                     /\ unc.sq = RatAdd(RatSq(RatDiv(err, px)),
                                        RatDiv(RatMul(RatSq(umPerPx), RootSq(sd)),
                                               RatSq(px)))
                     /\ (sd.sgn = 0 /\ err.n = 0) => (unc.sgn = 0 /\ unc.sq.n = 0)
                     /\ (sd.sgn # 0 \/ err.n # 0) => unc.sgn = 1

\* C9 witness: both error terms contribute to a returned uncertainty, for
\* the default tube diameter and a diameter of a fractional pixel count
C9_Witness ==
    /\ CallDone("magnificationUmPx")
    /\ outcome.kind = "return"
    /\ call.innerDiameterUm = RatOfInt(DefaultInnerDiameterUm)
    /\ call.innerDiameterPx.d = 2
    /\ call.innerDiameterErrUm.n > 0
    /\ call.stdDevPx.sgn = 1
    /\ outcome.value.stdDevUmPx.sgn = 1

\* ============================================================ claim C10
StepOrder == <<"median", "markers", "morph", "gradient2", "watershed">>

DSReached(step) == \E k \in 1..Len(stepLog) : stepLog[k] = step

\* the marked pixels of a mask or of a labelled image
Marked(img) == {p \in Pixels : img[p] # 0}

\* C10: detectShock performs its five steps in order, each once: (1) the
\* image is median-denoised, (2) the rank gradient of the denoised image is
\* thresholded (gradient < gradientThreshold) into markers, (3) the markers
\* go through the morphological step, (4) a second gradient is taken with
\* gradientDiskWatershed, (5) watershed runs on the gradient of step 4 with
\* the labelled result of step 3: its markers mark the pixels step 3 left
\* marked, each label on one group of joined pixels, and they are never the
\* thresholded mask itself handed over unlabelled.
C10_StepsInOrder ==
    /\ Len(stepLog) <= Len(StepOrder)
    /\ \A k \in 1..Len(stepLog) : stepLog[k] = StepOrder[k]
    /\ dsPc \in {"segments", "contours", "return", "done", "raised"} => stepLog = StepOrder
    /\ DSReached("median") =>
         /\ denoised \in Median(dsArgs.image, dsArgs.medianDisk)
         /\ \A p \in Pixels : denoised_norm[p] = Rat(denoised[p], ImgMax(denoised))
    /\ DSReached("markers") =>
         /\ rankGrad = RankGradient(FloatAsUbyte(denoised_norm), dsArgs.gradientDiskMarkers)
         /\ \A p \in Pixels : thresholded[p] = 1 <=> rankGrad[p] < dsArgs.gradientThreshold
         /\ \A p \in Pixels : thresholded[p] \in {0, 1}
         /\ dsPc \in {"morph", "label"} => markers = thresholded
    /\ DSReached("morph") =>
         /\ closing = IF dsArgs.morphDisk # 0
                      THEN MorphMarkers(thresholded, dsArgs.morphDisk)
                      ELSE thresholded
         /\ dsPc # "label" => Marked(markers) = Marked(closing)
         /\ dsPc # "label" => \A k \in {markers[p] : p \in Pixels} \ {0} :
              LET region == {p \in Pixels : markers[p] = k}
              IN  region = Grow(Marked(closing), {CHOOSE p \in region : TRUE})
    /\ DSReached("gradient2") =>
         gradient2 = RankGradient(FloatAsUbyte(denoised_norm), dsArgs.gradientDiskWatershed)
    /\ DSReached("watershed") =>
         /\ watershedCall.called
         /\ watershedCall.image = gradient2
         /\ watershedCall.markers = markers
         /\ \A p \in Marked(markers) : labels[p] = markers[p]
    /\ ~DSReached("watershed") => ~watershedCall.called

\* C10 witness: watershed ran as the fifth step, after a morphological
\* step that took marked pixels away, on labelled markers that are not the
\* thresholded mask, and flooded pixels that no marker covers
C10_Witness ==
    /\ stepLog = StepOrder
    /\ dsArgs.morphDisk # 0
    /\ Marked(closing) # Marked(thresholded)
    /\ Marked(closing) # {}
    /\ watershedCall.called
    /\ watershedCall.markers # thresholded
    /\ \E p \in Pixels : markers[p] = 0 /\ labels[p] # 0

\* ============================================================ claim C11
\* a morphological closing with disk(r): dilation followed by erosion
MorphClosing(mask, r) == RankMinimum(RankMaximum(BoolAsUbyte(mask), r), r)

\* C11: when morphDisk != 0 the step applied to the thresholded markers is
\* a morphological closing (dilation, then erosion, with disk(morphDisk)),
\* and every pixel that is a marker before the step is a marker after it.
C11_MorphIsClosing ==
    (DSReached("morph") /\ dsArgs.morphDisk # 0) =>
        /\ closing = MorphClosing(thresholded, dsArgs.morphDisk)
        /\ Marked(thresholded) \subseteq Marked(closing)

\* ============================================================ claim C12
\* C12: when morphDisk is 0 the morphological step is skipped: the mask
\* that is labelled and handed to watershed is the thresholded marker mask
\* (rankGrad < gradientThreshold), unchanged.
C12_MorphSkipped ==
    dsArgs.morphDisk = 0 =>
        /\ DSReached("morph") =>
             /\ closing = thresholded
             /\ \A p \in Pixels : closing[p] = 1 <=> rankGrad[p] < dsArgs.gradientThreshold
             /\ \A p \in Pixels : closing[p] \in {0, 1}
        /\ DSReached("gradient2") => markers = Label(thresholded)
        /\ watershedCall.called => watershedCall.markers = Label(thresholded)

\* C12 witness: watershed was called with morphDisk = 0 on the labels of a
\* thresholded mask that the morphological step would have changed
C12_Witness ==
    /\ dsArgs.morphDisk = 0
    /\ watershedCall.called
    /\ Marked(thresholded) # {}
    /\ Marked(MorphMarkers(thresholded, 1)) # Marked(thresholded)
    /\ Marked(watershedCall.markers) = Marked(thresholded)

\* ============================================================ claim C13
\* the number of labelled segments of a segmented image
NLabelled(lab) == Cardinality({lab[p] : p \in Pixels} \ {0})

\* the call has returned one contour per label of nSegments(labels, nSegs),
\* in the order of nSegments, each the longest contour of its segment
ContoursPerSegment ==
    /\ dsOutcome.kind = "return"
    /\ dsOutcome.value.contoursList = contoursList
    /\ dsOutcome.value.labels = labels
    /\ largestSegments \in NSegments(labels, dsArgs.nSegs)
    /\ Len(contoursList) = IF dsArgs.nSegs < NLabelled(labels)
                           THEN dsArgs.nSegs ELSE NLabelled(labels)
    /\ \A i \in 1..Len(contoursList) :
         Returned(contoursList[i]) \in SegmentContour(labels, largestSegments[i - 1])

\* C13: detectShock returns in contoursList one contour per label returned
\* by nSegments(labels, nSegs), in the same order (largest filled area
\* first): the call ends by returning, len(contoursList) is
\* min(nSegs, number of labelled segments), and the i-th contour is the
\* longest contour of the binary image labels == i-th largest segment.
C13_OneContourPerSegment ==
    /\ dsPc # "raised"
    /\ dsPc = "done" => ContoursPerSegment

\* ============================================================ claim C14
\* C14: nContours(contours, n) returns the n longest contours of the list,
\* from the longest to the shorter ones: the result has
\* min(n, len(contours)) elements, each of them one of the input contours
\* and none of them twice, every returned contour is at least as long as
\* every contour not returned, and the lengths never increase along the
\* result.
C14_NLongestContours ==
    (call.fn = "nContours" /\ outcome.kind # "pending") =>
        /\ outcome.kind = "return"
        /\ LET contours == call.contours
               result == outcome.value
               given == {contours[j] : j \in DOMAIN contours}
               returned == {result[i] : i \in DOMAIN result}
           IN  /\ DOMAIN result = 0..(ALen(result) - 1)
               /\ ALen(result) = IF call.n < ALen(contours) THEN call.n ELSE ALen(contours)
               /\ returned \subseteq given
               /\ Cardinality(returned) = ALen(result)
               /\ \A c \in returned : \A d \in given \ returned : d.len <= c.len
               /\ \A i, k \in DOMAIN result : i < k => result[k].len <= result[i].len

\* C14 witness: two contours were returned out of three of different
\* lengths that were not given in order of length
C14_Witness ==
    /\ call.fn = "nContours"
    /\ outcome.kind = "return"
    /\ call.n = 2
    /\ ALen(call.contours) = 3
    /\ call.contours[0].len < call.contours[2].len
    /\ call.contours[2].len < call.contours[1].len
    /\ ALen(outcome.value) = 2
    /\ outcome.value[0] = call.contours[1]
    /\ outcome.value[1] = call.contours[2]

\* ============================================================ claim C15
\* C15: nSegments(labels, n) returns the label numbers of the n segments
\* of largest filled area, in descending order of area: the result has
\* min(n, number of non-zero labels present) elements, all of them labels
\* present in the image, none twice and never the background label 0;
\* every returned label's filled area is at least that of every label not
\* returned, and the areas never increase along the result.
C15_NLargestSegments ==
    (call.fn = "nSegments" /\ outcome.kind # "pending") =>
        /\ outcome.kind = "return"
        /\ LET lab == call.labels
               result == outcome.value
               present == {lab[p] : p \in Pixels} \ {0}
               returned == {result[i] : i \in DOMAIN result}
           IN  /\ DOMAIN result = 0..(ALen(result) - 1)
               /\ ALen(result) = IF call.n < Cardinality(present)
                                 THEN call.n ELSE Cardinality(present)
               /\ 0 \notin returned
               /\ returned \subseteq present
               /\ Cardinality(returned) = ALen(result)
               /\ \A k \in returned : \A j \in present \ returned :
                    FilledArea(lab, j) <= FilledArea(lab, k)
               /\ \A i, k \in DOMAIN result :
                    i < k => FilledArea(lab, result[k]) <= FilledArea(lab, result[i])

\* C15 witness: from an image with background and three segments, the two
\* segments of largest area were returned, the larger one, which has the
\* greater label number, first
C15_Witness ==
    /\ call.fn = "nSegments"
    /\ outcome.kind = "return"
    /\ call.n = 2
    /\ {call.labels[p] : p \in Pixels} = {0, 1, 2, 3}
    /\ FilledArea(call.labels, 1) < FilledArea(call.labels, 2)
    /\ FilledArea(call.labels, 2) < FilledArea(call.labels, 3)
    /\ outcome.value = Tuple2(3, 2)

====
